---- MODULE Spec2Model ----
(***************************************************************************)
(* A model of the versian crate: DebianVersion (src/src/lib.rs), its       *)
(* FromStr parser, its Display rendering, its field-mutation helpers, its  *)
(* PartialOrd implementation, and the validators of src/src/validations.rs.*)
(*                                                                         *)
(* A Rust string is modelled as a sequence of one-character strings, so    *)
(* "1.0-2" is << "1", ".", "0", "-", "2" >>.                               *)
(***************************************************************************)
EXTENDS Integers, Sequences, FiniteSets, TLC

VARIABLES
    pc,        \* where the caller is: "start", "parsed", "rejected", "reparsed",
               \* "mutated", "compared"
    value,     \* the raw string handed to from_str
    parsed,    \* the Result from_str returned for value, once it has run
    this,      \* the DebianVersion the caller holds (self of the helpers)
    rendered,  \* this.to_string(), once rendered
    reparsed,  \* the Result from_str returned for rendered
    operands,  \* the raw strings of a comparison
    versions,  \* the DebianVersions parsed from operands
    orders     \* orders[i][j]: versions[i].partial_cmp(&versions[j])

vars == << pc, value, parsed, this, rendered, reparsed, operands, versions, orders >>

----------------------------------------------------------------------------
(* Bounds of the model.                                                    *)

\* longest raw input handed to from_str in the parsing specification
MaxLen == 5
\* longest raw input in the mutation specification
MutLen == 3
\* longest revision string a caller stores through mut_debian_revision
RevLen == 1
\* largest epoch a caller stores through mut_epoch
MaxEpoch == 1
\* longest operand of the two-operand comparison specification
PairLen == 3
\* longest upstream version of the three-operand comparison specification
TripleLen == 2

----------------------------------------------------------------------------
(* Characters.                                                             *)

\* characters of the parsing inputs: digits, letters of both cases, the
\* punctuation the validators name, and "!" for any character they reject
Alphabet == {"0", "1", "a", "A", ".", "+", ":", "-", "!"}

\* characters of the comparison operands
CmpAlphabet == {"0", "1", "a", "~", "-", ":"}

\* characters of the upstream versions of the three-operand comparison
OrdAlphabet == {"1", "a", "~"}

AsciiDigits == {"0", "1", "2", "3", "4", "5", "6", "7", "8", "9"}
AsciiLower == {"a", "b", "c", "r", "z"}
AsciiUpper == {"A", "B", "C", "R", "Z"}

\* the ASCII codes of the characters the model uses
AsciiTable ==
    ("!" :> 33) @@ ("+" :> 43) @@ ("-" :> 45) @@ ("." :> 46)
      @@ ("0" :> 48) @@ ("1" :> 49) @@ ("2" :> 50) @@ ("3" :> 51) @@ ("4" :> 52)
      @@ ("5" :> 53) @@ ("6" :> 54) @@ ("7" :> 55) @@ ("8" :> 56) @@ ("9" :> 57)
      @@ (":" :> 58)
      @@ ("A" :> 65) @@ ("B" :> 66) @@ ("C" :> 67) @@ ("R" :> 82) @@ ("Z" :> 90)
      @@ ("a" :> 97) @@ ("b" :> 98) @@ ("c" :> 99) @@ ("r" :> 114) @@ ("z" :> 122)
      @@ ("~" :> 126)

Ascii(c) == AsciiTable[c]

is_ascii_digit(c) == c \in AsciiDigits
is_ascii_alphabetic(c) == c \in AsciiLower \cup AsciiUpper
is_ascii_alphanumeric(c) == is_ascii_digit(c) \/ is_ascii_alphabetic(c)

DigitValue(c) == Ascii(c) - 48

to_ascii_uppercase(c) ==
    IF c \in AsciiLower THEN CHOOSE u \in AsciiUpper : Ascii(u) = Ascii(c) - 32
    ELSE c

to_ascii_lowercase(c) ==
    IF c \in AsciiUpper THEN CHOOSE l \in AsciiLower : Ascii(l) = Ascii(c) + 32
    ELSE c

----------------------------------------------------------------------------
(* Option, Result and the string functions of the standard library.        *)

None == [some |-> FALSE]
Some(x) == [some |-> TRUE, v |-> x]

Ok(x) == [ok |-> TRUE, v |-> x]
Err(e) == [ok |-> FALSE, e |-> e]

\* all strings over alphabet A of length at most n
Strings(A, n) == UNION {[1..k -> A] : k \in 0..n}

Positions(s, ch) == {i \in 1..Len(s) : s[i] = ch}

Min(S) == CHOOSE x \in S : \A y \in S : x <= y
Max(S) == CHOOSE x \in S : \A y \in S : x >= y

\* str::split_once: split at the first occurrence of ch
split_once(s, ch) ==
    IF Positions(s, ch) = {} THEN None
    ELSE LET i == Min(Positions(s, ch))
         IN  Some(<< SubSeq(s, 1, i - 1), SubSeq(s, i + 1, Len(s)) >>)

\* str::rsplit_once: split at the last occurrence of ch
rsplit_once(s, ch) ==
    IF Positions(s, ch) = {} THEN None
    ELSE LET i == Max(Positions(s, ch))
         IN  Some(<< SubSeq(s, 1, i - 1), SubSeq(s, i + 1, Len(s)) >>)

RECURSIVE DecimalValue(_)
DecimalValue(s) ==
    IF s = << >> THEN 0
    ELSE 10 * DecimalValue(SubSeq(s, 1, Len(s) - 1)) + DigitValue(s[Len(s)])

\* str::parse::<usize>: an optional "+" sign, then one or more ASCII digits.
\* Every digit string within the bounds of the model is below usize::MAX, so
\* the overflow error of the real function is out of reach here.
parse_usize(s) ==
    IF s = << >> THEN Err("Empty")
    ELSE LET digits == IF s[1] = "+" THEN Tail(s) ELSE s
         IN  IF digits = << >> THEN Err("InvalidDigit")
             ELSE IF \E i \in 1..Len(digits) : ~is_ascii_digit(digits[i])
                  THEN Err("InvalidDigit")
                  ELSE Ok(DecimalValue(digits))

DigitChar(d) == CHOOSE c \in AsciiDigits : DigitValue(c) = d

\* the decimal rendering of a usize ("{}" of an integer)
RECURSIVE usize_to_string(_)
usize_to_string(n) ==
    IF n < 10 THEN << DigitChar(n) >>
    ELSE usize_to_string(n \div 10) \o << DigitChar(n % 10) >>

----------------------------------------------------------------------------
(* src/src/validations.rs                                                  *)

only_valid_chars(s) ==
    \A i \in 1..Len(s) :
        is_ascii_alphanumeric(s[i]) \/ s[i] = "+" \/ s[i] = "." \/ s[i] = "~" \/ s[i] = ":"

\* a validate_with_revision that checks the character set before the first
\* character
validate_with_revision_charset_first(s) ==
    IF s = << >> THEN Err("EmptyUpstream")
    ELSE IF ~(\A i \in 1..Len(s) :
                 is_ascii_alphanumeric(s[i]) \/ s[i] \in {".", "+", "-", ":", "~"})
         THEN Err("UpstreamInvalidCharacters")
         ELSE IF ~is_ascii_digit(s[1]) THEN Err("UpstreamStartWithDigit")
              ELSE Ok(TRUE)

validate_with_revision(s) ==
    IF s = << >> THEN Err("EmptyUpstream")
    ELSE IF ~is_ascii_digit(s[1]) THEN Err("UpstreamStartWithDigit")
         ELSE IF \A i \in 1..Len(s) :
                    is_ascii_alphanumeric(s[i]) \/ s[i] \in {".", "+", "-", ":", "~"}
              THEN Ok(TRUE)
              ELSE Err("UpstreamInvalidCharacters")

\* a validate_without_revision that lacks the emptiness check
validate_without_revision_no_empty_check(s) ==
    IF s = << >> \/ ~is_ascii_digit(s[1]) THEN Err("UpstreamStartWithDigit")
    ELSE IF only_valid_chars(s) THEN Ok(TRUE)
         ELSE Err("UpstreamInvalidCharacters")

validate_without_revision(s) ==
    IF s = << >> THEN Err("EmptyUpstream")
    ELSE IF ~is_ascii_digit(s[1]) THEN Err("UpstreamStartWithDigit")
         ELSE IF only_valid_chars(s) THEN Ok(TRUE)
              ELSE Err("UpstreamInvalidCharacters")

\* ValidateDebianRevision::validate; nothing in the crate calls it
validate(s) ==
    IF s = << >> THEN Err("EmptyRevision")
    ELSE IF ~only_valid_chars(s) THEN Err("RevisionInvalidCharacters")
         ELSE Ok(TRUE)

----------------------------------------------------------------------------
(* src/src/lib.rs: DebianVersion and FromStr                               *)

DebianVersion(epoch, upstream_version, debian_revision) ==
    [epoch |-> epoch, upstream_version |-> upstream_version,
     debian_revision |-> debian_revision]

\* the split that separates the revision, at the first "-" instead of the last
split_revision_at_first_dash(rest) == split_once(rest, "-")

\* rest.rsplit_once('-') of from_str
split_revision(rest) == rsplit_once(rest, "-")

\* the final Ok of from_str, reached when a validator returns Ok(false)
from_str_fallthrough(epoch, whole) == Ok(DebianVersion(epoch, whole, None))

\* the body both arms of the match on split_once(':') share: rest is the text
\* after the epoch separator in the first arm and the whole input in the second
from_str_rest(epoch, rest, whole) ==
    LET sp == split_revision(rest)
    IN  IF sp.some
        THEN LET upstream_version == sp.v[1]
                 debian_revision == sp.v[2]
                 r == validate_with_revision(upstream_version)
             IN  IF ~r.ok THEN r
                 ELSE IF r.v
                      THEN Ok(DebianVersion(epoch, upstream_version, Some(debian_revision)))
                      ELSE from_str_fallthrough(epoch, whole)
        ELSE LET r == validate_without_revision(rest)
             IN  IF ~r.ok THEN r
                 ELSE IF r.v
                      THEN Ok(DebianVersion(epoch, rest, None))
                      ELSE from_str_fallthrough(epoch, whole)

from_str(s) ==
    IF s = << >> THEN Err("Empty")
    ELSE LET sp == split_once(s, ":")
         IN  IF sp.some
             THEN LET first == sp.v[1]
                      rest == sp.v[2]
                      e == parse_usize(first)
                  IN  IF ~e.ok THEN Err("InvalidEpoch")
                      ELSE from_str_rest(Some(e.v), rest, s)
             ELSE from_str_rest(None, s, s)

----------------------------------------------------------------------------
(* src/src/lib.rs: Display                                                 *)

\* a Display that writes the epoch separator even when there is no epoch
to_string_always_colon(v) ==
    (IF v.epoch.some THEN usize_to_string(v.epoch.v) ELSE << >>) \o << ":" >>
        \o v.upstream_version
        \o (IF v.debian_revision.some THEN << "-" >> \o v.debian_revision.v ELSE << >>)

\* a Display that leaves the epoch out
to_string_no_epoch(v) ==
    IF v.debian_revision.some
    THEN v.upstream_version \o << "-" >> \o v.debian_revision.v
    ELSE v.upstream_version

to_string(v) ==
    IF v.epoch.some
    THEN IF v.debian_revision.some
         THEN usize_to_string(v.epoch.v) \o << ":" >> \o v.upstream_version
                  \o << "-" >> \o v.debian_revision.v
         ELSE usize_to_string(v.epoch.v) \o << ":" >> \o v.upstream_version
    ELSE IF v.debian_revision.some
         THEN v.upstream_version \o << "-" >> \o v.debian_revision.v
         ELSE v.upstream_version

----------------------------------------------------------------------------
(* rust_apt::util::cmp_versions, the comparison partial_cmp delegates to.  *)
(* Its code is not part of the crate; it is modelled from the comparison   *)
(* algorithm the specification states (epoch, then upstream version, then  *)
(* revision, each string pair by the segment algorithm).                   *)

\* the modified lexical order of one character of a non-digit run; the end of
\* the run has order 0
char_order(c) ==
    IF c = "~" THEN -1
    ELSE IF is_ascii_alphabetic(c) THEN Ascii(c)
         ELSE Ascii(c) + 256

RECURSIVE non_digit_prefix(_)
non_digit_prefix(s) ==
    IF s = << >> \/ is_ascii_digit(s[1]) THEN << >>
    ELSE << s[1] >> \o non_digit_prefix(Tail(s))

RECURSIVE digit_prefix(_)
digit_prefix(s) ==
    IF s = << >> \/ ~is_ascii_digit(s[1]) THEN << >>
    ELSE << s[1] >> \o digit_prefix(Tail(s))

drop_prefix(s, p) == SubSeq(s, Len(p) + 1, Len(s))

cmp_int(m, n) == IF m < n THEN "Less" ELSE IF m > n THEN "Greater" ELSE "Equal"

RECURSIVE cmp_non_digit(_, _)
cmp_non_digit(p, q) ==
    IF p = << >> /\ q = << >> THEN "Equal"
    ELSE LET op == IF p = << >> THEN 0 ELSE char_order(p[1])
             oq == IF q = << >> THEN 0 ELSE char_order(q[1])
         IN  IF op # oq THEN cmp_int(op, oq)
             ELSE cmp_non_digit(Tail(p), Tail(q))

RECURSIVE cmp_segments(_, _)
cmp_segments(a, b) ==
    IF a = << >> /\ b = << >> THEN "Equal"
    ELSE LET pa == non_digit_prefix(a)
             pb == non_digit_prefix(b)
             lex == cmp_non_digit(pa, pb)
         IN  IF lex # "Equal" THEN lex
             ELSE LET ra == drop_prefix(a, pa)
                      rb == drop_prefix(b, pb)
                      da == digit_prefix(ra)
                      db == digit_prefix(rb)
                      num == cmp_int(DecimalValue(da), DecimalValue(db))
                  IN  IF num # "Equal" THEN num
                      ELSE cmp_segments(drop_prefix(ra, da), drop_prefix(rb, db))

\* the three components of a version string: the epoch before the first ":"
\* (0 when there is none), the revision after the last "-" of the rest (empty
\* when there is none), the upstream version between them
cmp_components(s) ==
    LET ep == split_once(s, ":")
        rest == IF ep.some THEN ep.v[2] ELSE s
        rv == rsplit_once(rest, "-")
    IN  [epoch |-> IF ep.some THEN DecimalValue(ep.v[1]) ELSE 0,
         upstream |-> IF rv.some THEN rv.v[1] ELSE rest,
         revision |-> IF rv.some THEN rv.v[2] ELSE << >>]

cmp_versions(a, b) ==
    LET ca == cmp_components(a)
        cb == cmp_components(b)
        up == cmp_segments(ca.upstream, cb.upstream)
    IN  IF ca.epoch # cb.epoch THEN cmp_int(ca.epoch, cb.epoch)
        ELSE IF up # "Equal" THEN up
             ELSE cmp_segments(ca.revision, cb.revision)

----------------------------------------------------------------------------
(* src/src/lib.rs: PartialOrd                                              *)

\* a partial_cmp that renders other's upstream version instead of other
partial_cmp_other_upstream_only(self, other) ==
    Some(cmp_versions(to_string(self), other.upstream_version))

\* a partial_cmp with its two operands exchanged
partial_cmp_swapped(self, other) ==
    Some(cmp_versions(to_string(other), to_string(self)))

partial_cmp(self, other) ==
    Some(cmp_versions(to_string(self), to_string(other)))

----------------------------------------------------------------------------
(* src/src/lib.rs: the field-mutation helpers.  A caller that holds the    *)
(* `&mut str` of a field can, in safe code, change the case of the ASCII   *)
(* letters of any part of it and hand back any part of it.                 *)

\* what a closure FnMut(&mut str) -> &mut str does: a case change of the
\* characters from..to, and the slice start..end it returns
CaseOps == {"keep", "upper", "lower"}

apply_case(s, op, from, to) ==
    [i \in 1..Len(s) |->
        IF i < from \/ i > to THEN s[i]
        ELSE IF op = "upper" THEN to_ascii_uppercase(s[i])
             ELSE IF op = "lower" THEN to_ascii_lowercase(s[i])
                  ELSE s[i]]

\* the in-place edits of a field
Edits(s) == [op : CaseOps, from : 1..(Len(s) + 1), to : 0..Len(s)]

\* the closures that edit a field in place and return a slice of it
Closures(s) ==
    [op : CaseOps, from : 1..(Len(s) + 1), to : 0..Len(s),
     start : 1..(Len(s) + 1), end : 0..Len(s)]

\* the string the field holds once the closure has run
closure_effect(f, s) == apply_case(s, f.op, f.from, f.to)

\* the slice the closure returns
closure_result(f, s) == SubSeq(closure_effect(f, s), f.start, f.end)

----------------------------------------------------------------------------
(* The state machine: a caller that parses a raw string (as the tests      *)
(* empty, only_dashes and valid_version do), renders and re-parses the     *)
(* result, mutates its fields, or parses several strings and compares the  *)
(* results (as the test cmp_versions does).                                *)

\* the raw strings from_str accepts
ValidOperands(A, n) == {s \in Strings(A, n) : from_str(s).ok}

Idle ==
    /\ parsed = None /\ this = None /\ rendered = None /\ reparsed = None
    /\ versions = << >> /\ orders = << >>

Init ==
    /\ pc = "start"
    /\ value \in Strings(Alphabet, MaxLen)
    /\ operands = << >>
    /\ Idle

InitMut ==
    /\ pc = "start"
    /\ value \in Strings(Alphabet, MutLen)
    /\ operands = << >>
    /\ Idle

InitCmp ==
    /\ pc = "start"
    /\ value = << >>
    /\ operands \in [1..2 -> ValidOperands(CmpAlphabet, PairLen)]
    /\ Idle

\* the upstream versions over OrdAlphabet, each of them also with epoch 1 and
\* with revision 1
OrdOperands ==
    LET U == ValidOperands(OrdAlphabet, TripleLen)
    IN  U \cup {<< "1", ":" >> \o u : u \in U} \cup {u \o << "-", "1" >> : u \in U}

InitOrd ==
    /\ pc = "start"
    /\ value = << >>
    /\ operands \in [1..3 -> OrdOperands]
    /\ Idle

\* value.parse::<DebianVersion>()
Parse ==
    /\ pc = "start"
    /\ operands = << >>
    /\ parsed' = Some(from_str(value))
    /\ this' = IF from_str(value).ok THEN Some(from_str(value).v) ELSE None
    /\ pc' = IF from_str(value).ok THEN "parsed" ELSE "rejected"
    /\ UNCHANGED << value, rendered, reparsed, operands, versions, orders >>

\* this.to_string().parse::<DebianVersion>(), and the comparison of the result
\* with this
RoundTrip ==
    /\ pc = "parsed"
    /\ rendered' = Some(to_string(this.v))
    /\ reparsed' = Some(from_str(to_string(this.v)))
    /\ orders' = IF from_str(to_string(this.v)).ok
                 THEN << partial_cmp(this.v, from_str(to_string(this.v)).v) >>
                 ELSE << >>
    /\ pc' = "reparsed"
    /\ UNCHANGED << value, parsed, this, operands, versions >>

\* *this.mut_epoch()? = n
MutEpoch ==
    /\ pc \in {"parsed", "mutated"}
    /\ this.v.epoch.some
    /\ \E n \in 0..MaxEpoch :
          this' = Some([this.v EXCEPT !.epoch = Some(n)])
    /\ pc' = "mutated"
    /\ UNCHANGED << value, parsed, rendered, reparsed, operands, versions, orders >>

\* a write through this.mut_upstream_version()
MutUpstreamVersion ==
    /\ pc \in {"parsed", "mutated"}
    /\ \E f \in Edits(this.v.upstream_version) :
          this' = Some([this.v EXCEPT
                          !.upstream_version = closure_effect(f, this.v.upstream_version)])
    /\ pc' = "mutated"
    /\ UNCHANGED << value, parsed, rendered, reparsed, operands, versions, orders >>

\* this.map_upstream_version_with(f): f runs on the field, its result is dropped
MapUpstreamVersionWith ==
    /\ pc \in {"parsed", "mutated"}
    /\ \E f \in Edits(this.v.upstream_version) :
          this' = Some([this.v EXCEPT
                          !.upstream_version = closure_effect(f, this.v.upstream_version)])
    /\ pc' = "mutated"
    /\ UNCHANGED << value, parsed, rendered, reparsed, operands, versions, orders >>

\* *this.mut_debian_revision() = r
MutDebianRevision ==
    /\ pc \in {"parsed", "mutated"}
    /\ \E r \in {None} \cup {Some(s) : s \in Strings(Alphabet, RevLen)} :
          this' = Some([this.v EXCEPT !.debian_revision = r])
    /\ pc' = "mutated"
    /\ UNCHANGED << value, parsed, rendered, reparsed, operands, versions, orders >>

\* this.map_debian_revision_with(f): the field becomes a copy of what f returns
MapDebianRevisionWith ==
    /\ pc \in {"parsed", "mutated"}
    /\ IF this.v.debian_revision.some
       THEN \E f \in Closures(this.v.debian_revision.v) :
               this' = Some([this.v EXCEPT
                               !.debian_revision =
                                   Some(closure_result(f, this.v.debian_revision.v))])
       ELSE this' = this
    /\ pc' = "mutated"
    /\ UNCHANGED << value, parsed, rendered, reparsed, operands, versions, orders >>

\* DebianVersion::from_str of every operand, each asserted Ok, and the
\* comparison of every result with every result
CmpVersions ==
    /\ pc = "start"
    /\ operands # << >>
    /\ \A i \in DOMAIN operands : from_str(operands[i]).ok
    /\ versions' = [i \in DOMAIN operands |-> from_str(operands[i]).v]
    /\ orders' = [i \in DOMAIN operands |->
                    [j \in DOMAIN operands |-> partial_cmp(versions'[i], versions'[j])]]
    /\ pc' = "compared"
    /\ UNCHANGED << value, parsed, this, rendered, reparsed, operands >>

Next == Parse \/ RoundTrip

NextMut ==
    \/ Parse
    \/ MutEpoch
    \/ MutUpstreamVersion
    \/ MapUpstreamVersionWith
    \/ MutDebianRevision
    \/ MapDebianRevisionWith

NextCmp == CmpVersions

\* parsing, rendering and re-parsing one raw string
Spec == Init /\ [][Next]_vars

\* parsing one raw string and mutating the fields of the result
SpecMut == InitMut /\ [][NextMut]_vars

\* parsing two raw strings and comparing the results
SpecCmp == InitCmp /\ [][NextCmp]_vars

\* parsing three raw strings and comparing the results
SpecOrd == InitOrd /\ [][NextCmp]_vars

----------------------------------------------------------------------------
(* What the claims speak of, stated on the raw input alone.                *)

HasColon(s) == \E i \in 1..Len(s) : s[i] = ":"

\* the text before the first ":" of an input that has one
EpochCandidate(s) ==
    LET i == CHOOSE k \in 1..Len(s) : s[k] = ":" /\ \A m \in 1..(k - 1) : s[m] # ":"
    IN  SubSeq(s, 1, i - 1)

\* the text after the first ":" if any, otherwise the whole input
Remainder(s) ==
    IF HasColon(s)
    THEN LET i == CHOOSE k \in 1..Len(s) : s[k] = ":" /\ \A m \in 1..(k - 1) : s[m] # ":"
         IN  SubSeq(s, i + 1, Len(s))
    ELSE s

HasDash(s) == \E i \in 1..Len(s) : s[i] = "-"

\* the position of the rightmost "-" of a string that has one
LastDash(s) == CHOOSE k \in 1..Len(s) : s[k] = "-" /\ \A m \in (k + 1)..Len(s) : s[m] # "-"

\* the text before the rightmost "-" of the remainder, or the whole remainder
UpstreamCandidate(s) ==
    IF HasDash(Remainder(s))
    THEN SubSeq(Remainder(s), 1, LastDash(Remainder(s)) - 1)
    ELSE Remainder(s)

\* the text after the rightmost "-" of a remainder that has one
RevisionCandidate(s) ==
    SubSeq(Remainder(s), LastDash(Remainder(s)) + 1, Len(Remainder(s)))

AllDigits(s) == \A i \in 1..Len(s) : s[i] \in AsciiDigits

\* an epoch candidate that is non-empty and all ASCII digits
WellFormedEpoch(s) == HasColon(s) /\ EpochCandidate(s) # << >> /\ AllDigits(EpochCandidate(s))

RevisionChars == AsciiDigits \cup AsciiLower \cup AsciiUpper \cup {"+", ".", "~", ":"}
UpstreamChars == RevisionChars \cup {"-"}

Returned == parsed.v

----------------------------------------------------------------------------
(* C1: when the remainder of the input has a "-" and the parse succeeds,   *)
(* the upstream version is the remainder before its rightmost "-" and the  *)
(* revision is the text after it; earlier dashes stay in the upstream      *)
(* version.                                                                *)
C1_SplitAtLastDash ==
    (pc # "start" /\ operands = << >> /\ Returned.ok /\ HasDash(Remainder(value)))
        => /\ Returned.v.upstream_version = UpstreamCandidate(value)
           /\ Returned.v.debian_revision = Some(RevisionCandidate(value))

\* a successful parse of an input with two dashes and no epoch
C1_Witness ==
    /\ pc = "parsed" /\ operands = << >>
    /\ ~HasColon(value)
    /\ Cardinality(Positions(value, "-")) >= 2
    /\ HasDash(Returned.v.upstream_version)
    /\ ~Returned.v.epoch.some

(* C2: for every input the parse accepts, the rendering of the result is   *)
(* accepted too and its parse compares Equal to the result.                *)
C2_RoundTrip ==
    pc = "reparsed" => /\ reparsed.v.ok
                       /\ orders = << Some("Equal") >>

\* a round trip of a version with an epoch whose rendering is not the input
C2_Witness ==
    /\ pc = "reparsed"
    /\ this.v.epoch.some
    /\ rendered.v # value
    /\ reparsed.v.ok

C7_RevisionValidated ==
    (pc # "start" /\ operands = << >>
       /\ (HasColon(value) => WellFormedEpoch(value))
       /\ HasDash(Remainder(value))
       /\ validate_with_revision(UpstreamCandidate(value)).ok)
        => /\ RevisionCandidate(value) = << >> => Returned = Err("EmptyRevision")
           /\ (RevisionCandidate(value) # << >>
                 /\ \E i \in 1..Len(RevisionCandidate(value)) :
                       RevisionCandidate(value)[i] \notin RevisionChars)
                 => Returned = Err("RevisionInvalidCharacters")
           /\ (Returned.ok /\ Returned.v.debian_revision.some)
                 => /\ Returned.v.debian_revision.v # << >>
                    /\ \A i \in 1..Len(Returned.v.debian_revision.v) :
                          Returned.v.debian_revision.v[i] \in RevisionChars

(* C8: when the input has a ":", an epoch candidate that is empty or holds *)
(* a character that is no ASCII digit gives InvalidEpoch, whatever the     *)
(* remainder is.                                                           *)
C8_InvalidEpoch ==
    (pc # "start" /\ operands = << >> /\ HasColon(value) /\ ~WellFormedEpoch(value))
        => Returned = Err("InvalidEpoch")

C10_InvariantsKept ==
    this.some
        => /\ this.v.upstream_version # << >>
           /\ this.v.upstream_version[1] \in AsciiDigits
           /\ \A i \in 1..Len(this.v.upstream_version) :
                 this.v.upstream_version[i] \in UpstreamChars
           /\ HasDash(this.v.upstream_version) => this.v.debian_revision.some
           /\ this.v.debian_revision.some
                 => /\ this.v.debian_revision.v # << >>
                    /\ \A i \in 1..Len(this.v.debian_revision.v) :
                          this.v.debian_revision.v[i] \in RevisionChars

----------------------------------------------------------------------------
(* What the comparison claims speak of.                                    *)

\* the epoch of a version, 0 when it has none
EpochOrZero(v) == IF v.epoch.some THEN v.epoch.v ELSE 0

Inverse(o) == IF o = "Less" THEN "Greater" ELSE IF o = "Greater" THEN "Less" ELSE o

NumericOrder(m, n) == IF m < n THEN "Less" ELSE IF m > n THEN "Greater" ELSE "Equal"

\* the length of the longest common prefix of two strings
CommonPrefixLength(a, b) ==
    Max({k \in 0..Len(a) : k <= Len(b) /\ \A i \in 1..k : a[i] = b[i]})

\* the length of the longest common prefix that does not end inside a digit run
SharedLength(a, b) ==
    Max({k \in 0..CommonPrefixLength(a, b) : k = 0 \/ a[k] \notin AsciiDigits})

\* the maximal run of ASCII digits of s that starts after position k
DigitRunAfter(s, k) ==
    LET stop == Min({j \in (k + 1)..(Len(s) + 1) : j = Len(s) + 1 \/ s[j] \notin AsciiDigits})
    IN  SubSeq(s, k + 1, stop - 1)

\* the value of a digit string, digit by digit from the left
DigitRunValue(d) ==
    LET F[i \in 0..Len(d)] ==
            IF i = 0 THEN 0
            ELSE 10 * F[i - 1] + (CHOOSE n \in 0..9 : DigitChar(n) = d[i])
    IN  F[Len(d)]

\* two upstream versions that agree up to a digit run of each, the two runs
\* differing in value
DifferInDigitRun(a, b) ==
    LET k == SharedLength(a, b)
    IN  /\ DigitRunAfter(a, k) # << >>
        /\ DigitRunAfter(b, k) # << >>
        /\ DigitRunValue(DigitRunAfter(a, k)) # DigitRunValue(DigitRunAfter(b, k))

(* C3: the comparison of parsed versions always gives an order; a version  *)
(* is Equal to itself; the comparisons of a with b and of b with a are     *)
(* inverses; and a Less than b and b Less than c make a Less than c.       *)
C3_TotalOrder ==
    pc = "compared"
        => \A i \in DOMAIN versions, j \in DOMAIN versions, k \in DOMAIN versions :
              /\ orders[i][j].some
              /\ orders[i][j].v \in {"Less", "Equal", "Greater"}
              /\ orders[i][i] = Some("Equal")
              /\ orders[j][i] = Some(Inverse(orders[i][j].v))
              /\ (orders[i][j] = Some("Less") /\ orders[j][k] = Some("Less"))
                    => orders[i][k] = Some("Less")

\* three versions in a strictly increasing chain, the first with a "~"
C3_Witness ==
    /\ pc = "compared"
    /\ Len(versions) = 3
    /\ orders[1][2] = Some("Less")
    /\ orders[2][3] = Some("Less")
    /\ orders[3][1] = Some("Greater")
    /\ \E i \in 1..Len(versions[1].upstream_version) : versions[1].upstream_version[i] = "~"

(* C4: the comparison decides on the epochs first, an absent epoch being   *)
(* 0: different epochs give their numeric order whatever the upstream      *)
(* versions and revisions are, and versions that differ only in an absent  *)
(* epoch against epoch 0 are Equal.                                        *)
C4_EpochFirst ==
    pc = "compared"
        => \A i \in DOMAIN versions, j \in DOMAIN versions :
              /\ EpochOrZero(versions[i]) # EpochOrZero(versions[j])
                    => orders[i][j] =
                          Some(NumericOrder(EpochOrZero(versions[i]), EpochOrZero(versions[j])))
              /\ (/\ EpochOrZero(versions[i]) = 0
                  /\ EpochOrZero(versions[j]) = 0
                  /\ versions[i].upstream_version = versions[j].upstream_version
                  /\ versions[i].debian_revision = versions[j].debian_revision)
                    => orders[i][j] = Some("Equal")

\* epoch 1 against no epoch with the same upstream version, and epoch 1
\* against a larger upstream version without an epoch
C4_Witness ==
    /\ pc = "compared"
    /\ Len(versions) = 2
    /\ versions[1].epoch = Some(1)
    /\ versions[2].epoch = None
    /\ cmp_segments(versions[1].upstream_version, versions[2].upstream_version) = "Less"
    /\ orders[1][2] = Some("Greater")

(* C5: when two versions have equal epochs and their upstream versions     *)
(* agree up to a digit run of each, the two runs differing in value, the   *)
(* comparison gives the order of the two values, whatever follows.         *)
C5_NumericRuns ==
    pc = "compared"
        => \A i \in DOMAIN versions, j \in DOMAIN versions :
              LET a == versions[i].upstream_version
                  b == versions[j].upstream_version
                  k == SharedLength(a, b)
              IN  (/\ EpochOrZero(versions[i]) = EpochOrZero(versions[j])
                   /\ DifferInDigitRun(a, b))
                    => orders[i][j] =
                          Some(NumericOrder(DigitRunValue(DigitRunAfter(a, k)),
                                            DigitRunValue(DigitRunAfter(b, k))))

\* 11 against 100: the smaller number is the later string
C5_Witness ==
    /\ pc = "compared"
    /\ Len(versions) = 2
    /\ versions[1].upstream_version = << "1", "1" >>
    /\ versions[2].upstream_version = << "1", "0", "0" >>
    /\ ~versions[1].epoch.some /\ ~versions[2].epoch.some
    /\ orders[1][2] = Some("Less")

====
